---- MODULE Spec2Model ----
(***************************************************************************)
(* The tweet deduplication cache of react_agent: twitter_search_tool       *)
(* (tools.py), load_cache / save_cache (utils.py) and the stateless        *)
(* search tool (tools.py), as a state machine over the cache file and the  *)
(* local variables of each running invocation.                             *)
(***************************************************************************)
EXTENDS Integers, Sequences, FiniteSets, TLC

(* ------------------------------ bounds --------------------------------- *)
\* Number of distinct tweet ids the upstream can return.
MaxIds == 2
\* Number of entries a search response of the Tavily API can carry.
MaxHits == 1

(* ------------------------- program constants --------------------------- *)
\* "max_results": 10 of the query string: the longest batch the upstream returns.
MaxResults == 10
\* response.status_code of a successful upstream call.
StatusOk == 200

Procs == {"main", "other"}
MainProc == "main"

Absent == "<absent>"

IdPool == <<"t1", "t2", "t3", "t4">>
Ids == {IdPool[i] : i \in 1..MaxIds}

\* The place table of the upstream: place id -> place object.
PlaceIds == {"p1"}
PlaceObj(pid) == [id |-> pid, full_name |-> "Chennai", country |-> "India"]

\* Raw tweet objects of the upstream ("tweet.fields": id, created_at,
\* author_id, text, geo). geo = Absent stands for an object without "geo".
Tweets ==
  [id : Ids, author_id : {"u1"}, text : {"cyclone"}, created_at : {"2025-02-02"},
   geo : {Absent} \cup PlaceIds]

\* User objects of includes.users, with or without a "location".
UserTables ==
  { <<>>,
    << [id |-> "u1", location |-> Absent] >>,
    << [id |-> "u1", location |-> "Madurai"] >> }

(* --------------------- ordered dictionaries (dict) --------------------- *)
\* A Python dict is a sequence of <<key, value>> pairs with distinct keys, in
\* insertion order.
Keys(d) == {d[i][1] : i \in DOMAIN d}
HasKey(d, k) == \E i \in DOMAIN d : d[i][1] = k
Get(d, k, default) ==
  IF HasKey(d, k) THEN d[CHOOSE i \in DOMAIN d : d[i][1] = k][2] ELSE default
Values(d) == [i \in DOMAIN d |-> d[i][2]]
Put(d, k, v) ==
  IF HasKey(d, k)
  THEN [i \in DOMAIN d |-> IF d[i][1] = k THEN <<k, v>> ELSE d[i]]
  ELSE Append(d, <<k, v>>)
RECURSIVE Update(_, _)
Update(d, pairs) ==
  IF pairs = <<>> THEN d
  ELSE Update(Put(d, Head(pairs)[1], Head(pairs)[2]), Tail(pairs))

Range(s) == {s[i] : i \in DOMAIN s}
DistinctIds(s) == \A i, j \in DOMAIN s : s[i].id = s[j].id => i = j

(* ------------------------------ the file ------------------------------- *)
\* The serialized document is a sequence of tokens: an opening brace, one
\* token per top-level key, a closing brace.
OpenTok == <<"{">>
CloseTok == <<"}">>
NulTok == <<"nul">>
PairTok(k, v) == <<"pair", k, v>>

json_dump(doc) ==
  <<OpenTok>> \o [i \in DOMAIN doc |-> PairTok(doc[i][1], doc[i][2])] \o <<CloseTok>>

Parseable(toks) ==
  /\ Len(toks) >= 2
  /\ toks[1] = OpenTok
  /\ toks[Len(toks)] = CloseTok
  /\ \A i \in 2..(Len(toks) - 1) : toks[i][1] = "pair"

json_load(toks) ==
  Update(<<>>, [i \in 1..(Len(toks) - 2) |-> <<toks[i + 1][2], toks[i + 1][3]>>])

DefaultDoc == << <<"twitter", <<>> >>, <<"summarization", <<>> >> >>

NoFile == [exists |-> FALSE, tokens |-> <<>>]
FileOf(doc) == [exists |-> TRUE, tokens |-> json_dump(doc)]

\* Variant: an unparseable file is read for what it holds instead of failing.
LoadRaisesNever(f) == FALSE
\* load_cache: the document, or a fault when the file exists and does not parse.
LoadRaises(f) == f.exists /\ ~Parseable(f.tokens)
\* Variant: an absent file is read as a document without namespaces.
load_cache_bare(f) == IF f.exists THEN json_load(f.tokens) ELSE <<>>
load_cache(f) == IF f.exists THEN json_load(f.tokens) ELSE DefaultDoc

\* A write of one token at a file offset (a hole is filled with NUL).
WriteAt(toks, pos, tok) ==
  [i \in 1..(IF pos > Len(toks) THEN pos ELSE Len(toks)) |->
     IF i = pos THEN tok ELSE IF i <= Len(toks) THEN toks[i] ELSE NulTok]

(* --------------------------- upstream replies -------------------------- *)
\* Batches of the search endpoint: at most MaxResults tweets, each tweet once.
RECURSIVE SeqsUpTo(_, _)
SeqsUpTo(S, n) ==
  IF n = 0 THEN {<<>>}
  ELSE LET shorter == SeqsUpTo(S, n - 1)
       IN shorter \cup {Append(s, x) : s \in shorter, x \in S}

BatchCap == IF MaxIds < MaxResults THEN MaxIds ELSE MaxResults
Batches == {b \in SeqsUpTo(Tweets, BatchCap) : DistinctIds(b)}

\* includes.places holds the places the batch's tweets refer to.
PlacesFor(b) ==
  LET refs == {b[i].geo : i \in DOMAIN b} \ {Absent}
      RECURSIVE AsSeq(_)
      AsSeq(S) == IF S = {} THEN <<>>
                  ELSE LET x == CHOOSE x \in S : TRUE IN <<PlaceObj(x)>> \o AsSeq(S \ {x})
  IN AsSeq(refs)

Body(hasData, data, users, title) ==
  [hasData |-> hasData, data |-> data, places |-> PlacesFor(data), users |-> users,
   title |-> title]
NoBody == Body(FALSE, <<>>, <<>>, "")
NoResponse == [status_code |-> 0, body |-> NoBody]

OkResponses ==
  {[status_code |-> StatusOk, body |-> Body(TRUE, b, u, "")] : b \in Batches, u \in UserTables}
    \cup {[status_code |-> StatusOk, body |-> Body(FALSE, <<>>, <<>>, "")]}
ErrResponses ==
  {[status_code |-> 401, body |-> Body(FALSE, <<>>, <<>>, "Unauthorized")],
   [status_code |-> 429, body |-> Body(FALSE, <<>>, <<>>, "Too Many Requests")]}
Responses == OkResponses \cup ErrResponses

\* os.getenv("TWITTER_BEARER_TOKEN"): unset (None), set to "", or a token.
Unset == "<unset>"
TokenValues == {Unset, "", "secret"}

(* ------------------------ twitter_search_tool -------------------------- *)
VARIABLES
  file,            \* search_cache.json: [exists, tokens]
  pc,              \* per process: where its invocation stands
  bearer_token,    \* per process: os.getenv("TWITTER_BEARER_TOKEN")
  response,        \* per process: the upstream response
  cache,           \* per process: the loaded document (a dict)
  existing_tweets, \* per process: what the name is bound to: "cache.twitter" or "fresh"
  new_tweets,      \* per process: the fetched tweets that are new
  all_tweets,      \* per process: the combined sequence that is formatted
  woff,            \* per process: offset of the file handle save_cache writes through
  result,          \* per process: what the invocation returned or raised
  snapshot,        \* history: per process, the records of "twitter" as loaded
  io,              \* history: per process, the requests, reads, writes and failed saves of the invocation
  fileAtCall,      \* history: per process, the file when the invocation began
  firstFetched,    \* history: per id, the first fetched item with that id
  lastSave,        \* history: the file before the last save began, and what it writes
  insertLog,       \* history: the records in the order their saves completed
  prev,            \* history: the remembered previous invocation
  spc,             \* search: where its invocation stands
  sresult,         \* search: what it returned or raised
  summary          \* summarizer: what summarize_tweets returned or raised

twitterVars ==
  <<file, pc, bearer_token, response, cache, existing_tweets, new_tweets, all_tweets,
    woff, result, snapshot, io, fileAtCall, firstFetched, lastSave, insertLog>>
searchVars == <<spc, sresult>>
vars == <<twitterVars, prev, searchVars, summary>>

NoResult == [kind |-> "none", text |-> "", status_code |-> 0, body |-> NoBody, items |-> <<>>]
Returned(text) == [NoResult EXCEPT !.kind = "return", !.text = text]
Raised(exc) == [NoResult EXCEPT !.kind = "raise", !.text = exc]
NoIo == [requested |-> FALSE, read |-> FALSE, wrote |-> FALSE, saveFailed |-> FALSE]
NoTweet == [id |-> Absent, author_id |-> Absent, text |-> Absent, created_at |-> Absent,
            geo |-> Absent]
NoPrev == [age |-> 0, data |-> <<>>, all_tweets |-> <<>>, twitter |-> <<>>]
NoSummary == [kind |-> "none", text |-> "", invoked |-> 0, total |-> 0]

\* Variant: only an unset variable counts as missing (`bearer_token is None`).
CredentialsMissingOnlyUnset(tok) == tok = Unset
\* `if not bearer_token`
CredentialsMissing(tok) == tok \in {Unset, ""}
\* Variant: only server errors count as failures.
IsSuccessBelow500(status) == status < 500
\* `response.status_code != 200` is the failure branch.
IsSuccess(status) == status = StatusOk
\* response.json().get("data", [])
DataOf(body) == IF body.hasData THEN body.data ELSE <<>>
\* Variant: the empty batch is not singled out.
NoTweetsNever(tweets) == FALSE
\* `if not tweets`
NoTweets(tweets) == tweets = <<>>

\* {tweet["id"] for tweet in cache.get("twitter", {}).values()}
ExistingIds(doc) == {t.id : t \in Range(Values(Get(doc, "twitter", <<>>)))}
\* [tweet for tweet in tweets if tweet["id"] not in existing_tweet_ids]
\* Variant: every fetched tweet counts as new.
IsNewAlways(t, ids) == TRUE
IsNew(t, ids) == t.id \notin ids
NewTweets(tweets, ids) == SelectSeq(tweets, LAMBDA t : IsNew(t, ids))
\* Variant: the cache is saved whether or not anything is new.
HasNewAlways(new) == TRUE
\* `if new_tweets`
HasNew(new) == new # <<>>
\* Variant: the records are keyed by their author instead of their id.
DictOfTweetsByAuthor(new) == Update(<<>>, [i \in DOMAIN new |-> <<new[i].author_id, new[i]>>])
\* {tweet["id"]: tweet for tweet in new_tweets}
DictOfTweets(new) == Update(<<>>, [i \in DOMAIN new |-> <<new[i].id, new[i]>>])
\* Variant: the saved document is rebuilt with the "twitter" namespace alone.
MergedOnlyTwitter(doc, new) ==
  << <<"twitter", Update(Get(doc, "twitter", <<>>), DictOfTweets(new))>> >>
\* Variant: the new tweets replace the namespace instead of being added to it.
MergedReplace(doc, new) ==
  LET d1 == IF HasKey(doc, "twitter") THEN doc ELSE Append(doc, <<"twitter", <<>> >>)
  IN Put(d1, "twitter", DictOfTweets(new))
\* Variant: only the first new tweet is merged into the document.
MergedFirstOnly(doc, new) ==
  LET d1 == IF HasKey(doc, "twitter") THEN doc ELSE Append(doc, <<"twitter", <<>> >>)
  IN Put(d1, "twitter", Update(Get(d1, "twitter", <<>>), DictOfTweets(SubSeq(new, 1, 1))))
\* cache.setdefault("twitter", {}).update(...)
Merged(doc, new) ==
  LET d1 == IF HasKey(doc, "twitter") THEN doc ELSE Append(doc, <<"twitter", <<>> >>)
  IN Put(d1, "twitter", Update(Get(d1, "twitter", <<>>), DictOfTweets(new)))

\* existing_tweets = cache.get("twitter", {}): the namespace object of the loaded
\* document itself when the key is there, a fresh empty dict otherwise.
BindExisting(doc) == IF HasKey(doc, "twitter") THEN "cache.twitter" ELSE "fresh"
ExistingTweets(ref, doc) == IF ref = "cache.twitter" THEN Get(doc, "twitter", <<>>) ELSE <<>>
\* list(existing_tweets.values()) + new_tweets
AllTweets(ref, doc, new) == Values(ExistingTweets(ref, doc)) \o new

\* The persisted document, and its "twitter" namespace.
Persisted == IF file.exists /\ Parseable(file.tokens) THEN json_load(file.tokens) ELSE <<>>
PersistedTwitter == Get(Persisted, "twitter", <<>>)

TypeOK ==
  /\ file.exists \in BOOLEAN
  /\ \A p \in Procs : pc[p] \in {"idle", "requesting", "fetched", "save_open", "save_write",
                                 "format", "done"}
  /\ \A p \in Procs : result[p].kind \in {"none", "return", "raise"}

\* The state of a fresh process, the cache file being one of `files`.
InitFrom(files) ==
  /\ file \in files
  /\ pc = [p \in Procs |-> "idle"]
  /\ bearer_token = [p \in Procs |-> Unset]
  /\ response = [p \in Procs |-> NoResponse]
  /\ cache = [p \in Procs |-> <<>>]
  /\ existing_tweets = [p \in Procs |-> "fresh"]
  /\ new_tweets = [p \in Procs |-> <<>>]
  /\ all_tweets = [p \in Procs |-> <<>>]
  /\ woff = [p \in Procs |-> 0]
  /\ result = [p \in Procs |-> NoResult]
  /\ snapshot = [p \in Procs |-> <<>>]
  /\ io = [p \in Procs |-> NoIo]
  /\ fileAtCall = [p \in Procs |-> file]
  /\ firstFetched = [i \in Ids |-> NoTweet]
  /\ lastSave = [from |-> file, to |-> file]
  /\ insertLog = <<>>
  /\ prev = NoPrev
  /\ spc = "idle"
  /\ sresult = NoResult
  /\ summary = NoSummary

\* The cache file is absent or holds the empty document.
Init == InitFrom({NoFile, FileOf(DefaultDoc)})

\* places / users of the response, keyed by id.
PlacesDict(body) == Update(<<>>, [i \in DOMAIN body.places |-> <<body.places[i].id, body.places[i]>>])
UsersDict(body) == Update(<<>>, [i \in DOMAIN body.users |-> <<body.users[i].id, body.users[i]>>])

\* users.get(tweet["author_id"], {}).get("location", "Unknown")
UserLocation(tweet, users) ==
  LET u == Get(users, tweet.author_id, [id |-> tweet.author_id, location |-> Absent])
  IN IF u.location = Absent THEN "Unknown" ELSE u.location
\* places[place_id] of a tweet with "geo" is a KeyError when the table lacks it.
LookupFails(tweet, places) == tweet.geo # Absent /\ ~HasKey(places, tweet.geo)
PlaceInfo(tweet, places, users) ==
  IF tweet.geo # Absent
  THEN LET pl == Get(places, tweet.geo, PlaceObj(tweet.geo))
       IN <<"Location", pl.full_name, pl.country>>
  ELSE IF UserLocation(tweet, users) # "Unknown"
       THEN <<"User's Location", UserLocation(tweet, users)>>
       ELSE <<"Location: Unknown">>
FormatTweet(tweet, places, users) ==
  [author_id |-> tweet.author_id, text |-> tweet.text,
   place_info |-> PlaceInfo(tweet, places, users), created_at |-> tweet.created_at]

\* Lines 208-211: the credentials check; the request of line 224 is then issued.
Call(p, tok) ==
  /\ pc[p] \in {"idle", "done"}
  /\ bearer_token' = [bearer_token EXCEPT ![p] = tok]
  /\ response' = [response EXCEPT ![p] = NoResponse]
  /\ cache' = [cache EXCEPT ![p] = <<>>]
  /\ existing_tweets' = [existing_tweets EXCEPT ![p] = "fresh"]
  /\ new_tweets' = [new_tweets EXCEPT ![p] = <<>>]
  /\ all_tweets' = [all_tweets EXCEPT ![p] = <<>>]
  /\ woff' = [woff EXCEPT ![p] = 0]
  /\ snapshot' = [snapshot EXCEPT ![p] = <<>>]
  /\ fileAtCall' = [fileAtCall EXCEPT ![p] = file]
  /\ prev' = IF prev.age = 1 THEN [prev EXCEPT !.age = 2] ELSE NoPrev
  /\ IF CredentialsMissing(tok)
     THEN /\ result' = [result EXCEPT ![p] = Returned("Twitter API credentials are missing.")]
          /\ io' = [io EXCEPT ![p] = NoIo]
          /\ pc' = [pc EXCEPT ![p] = "done"]
     ELSE /\ result' = [result EXCEPT ![p] = NoResult]
          /\ io' = [io EXCEPT ![p] = [NoIo EXCEPT !.requested = TRUE]]
          /\ pc' = [pc EXCEPT ![p] = "requesting"]
  /\ summary' = NoSummary
  /\ UNCHANGED <<file, firstFetched, lastSave, insertLog, searchVars>>

\* Lines 224-235: the response arrives; failure status and empty data return early.
Respond(p, r) ==
  /\ pc[p] = "requesting"
  /\ response' = [response EXCEPT ![p] = r]
  /\ IF ~IsSuccess(r.status_code)
     THEN /\ result' = [result EXCEPT ![p] =
                 [Returned("Error") EXCEPT !.status_code = r.status_code, !.body = r.body]]
          /\ pc' = [pc EXCEPT ![p] = "done"]
          /\ UNCHANGED firstFetched
     ELSE IF NoTweets(DataOf(r.body))
     THEN /\ result' = [result EXCEPT ![p] = Returned("No tweets found.")]
          /\ pc' = [pc EXCEPT ![p] = "done"]
          /\ UNCHANGED firstFetched
     ELSE /\ pc' = [pc EXCEPT ![p] = "fetched"]
          /\ firstFetched' =
               [i \in Ids |->
                  IF firstFetched[i] = NoTweet /\ \E t \in Range(DataOf(r.body)) : t.id = i
                  THEN CHOOSE t \in Range(DataOf(r.body)) : t.id = i
                  ELSE firstFetched[i]]
          /\ UNCHANGED result
  /\ UNCHANGED <<file, bearer_token, cache, existing_tweets, new_tweets, all_tweets, woff,
                 snapshot, io, fileAtCall, lastSave, insertLog, prev, searchVars, summary>>

\* Lines 238-247: load the cache, find the new tweets, merge them in memory.
LoadCache(p) ==
  /\ pc[p] = "fetched"
  /\ io' = [io EXCEPT ![p].read = TRUE]
  /\ IF LoadRaises(file)
     THEN /\ result' = [result EXCEPT ![p] = Raised("JSONDecodeError")]
          /\ pc' = [pc EXCEPT ![p] = "done"]
          /\ UNCHANGED <<cache, existing_tweets, new_tweets, snapshot>>
     ELSE LET doc == load_cache(file)
              new == NewTweets(DataOf(response[p].body), ExistingIds(doc))
          IN /\ existing_tweets' = [existing_tweets EXCEPT ![p] = BindExisting(doc)]
             /\ snapshot' = [snapshot EXCEPT ![p] = Values(Get(doc, "twitter", <<>>))]
             /\ new_tweets' = [new_tweets EXCEPT ![p] = new]
             /\ cache' = [cache EXCEPT ![p] = IF HasNew(new) THEN Merged(doc, new) ELSE doc]
             /\ pc' = [pc EXCEPT ![p] = IF HasNew(new) THEN "save_open" ELSE "format"]
             /\ UNCHANGED result
  /\ UNCHANGED <<file, bearer_token, response, all_tweets, woff, fileAtCall, firstFetched,
                 lastSave, insertLog, prev, searchVars, summary>>

\* save_cache, line 43: open(CACHE_FILE, 'w') creates or truncates the file.
SaveOpen(p) ==
  /\ pc[p] = "save_open"
  /\ file' = [exists |-> TRUE, tokens |-> <<>>]
  /\ woff' = [woff EXCEPT ![p] = 0]
  /\ io' = [io EXCEPT ![p].wrote = TRUE]
  /\ lastSave' = [from |-> file, to |-> FileOf(cache[p])]
  /\ pc' = [pc EXCEPT ![p] = "save_write"]
  /\ UNCHANGED <<bearer_token, response, cache, existing_tweets, new_tweets, all_tweets,
                 result, snapshot, fileAtCall, firstFetched, insertLog, prev, searchVars, summary>>

\* save_cache, line 44: json.dump writes the document piece by piece through the
\* handle; the file is closed after the last piece.
SaveWrite(p) ==
  /\ pc[p] = "save_write"
  /\ LET out == json_dump(cache[p])
     IN /\ woff[p] < Len(out)
        /\ file' = [file EXCEPT !.tokens = WriteAt(file.tokens, woff[p] + 1, out[woff[p] + 1])]
        /\ woff' = [woff EXCEPT ![p] = woff[p] + 1]
        /\ pc' = [pc EXCEPT ![p] = IF woff[p] + 1 = Len(out) THEN "format" ELSE "save_write"]
        /\ insertLog' = IF woff[p] + 1 = Len(out) THEN insertLog \o new_tweets[p] ELSE insertLog
  /\ UNCHANGED <<bearer_token, response, cache, existing_tweets, new_tweets, all_tweets,
                 result, snapshot, io, fileAtCall, firstFetched, lastSave, prev, searchVars, summary>>

\* Lines 250-269: build the combined sequence and format every record of it.
Format(p) ==
  /\ pc[p] = "format"
  /\ LET all == AllTweets(existing_tweets[p], cache[p], new_tweets[p])
         places == PlacesDict(response[p].body)
         users == UsersDict(response[p].body)
     IN /\ all_tweets' = [all_tweets EXCEPT ![p] = all]
        /\ result' = [result EXCEPT ![p] =
             IF \E i \in DOMAIN all : LookupFails(all[i], places)
             THEN Raised("KeyError")
             ELSE [Returned("formatted") EXCEPT
                     !.items = [i \in DOMAIN all |-> FormatTweet(all[i], places, users)]]]
  /\ pc' = [pc EXCEPT ![p] = "done"]
  /\ UNCHANGED <<file, bearer_token, response, cache, existing_tweets, new_tweets, woff,
                 snapshot, io, fileAtCall, firstFetched, lastSave, insertLog, prev, searchVars, summary>>

\* The process is killed; a new process starts with nothing but the file.
Crash(p) ==
  /\ pc[p] \notin {"idle", "done"}
  /\ pc' = [pc EXCEPT ![p] = "idle"]
  /\ bearer_token' = [bearer_token EXCEPT ![p] = Unset]
  /\ response' = [response EXCEPT ![p] = NoResponse]
  /\ cache' = [cache EXCEPT ![p] = <<>>]
  /\ existing_tweets' = [existing_tweets EXCEPT ![p] = "fresh"]
  /\ new_tweets' = [new_tweets EXCEPT ![p] = <<>>]
  /\ all_tweets' = [all_tweets EXCEPT ![p] = <<>>]
  /\ woff' = [woff EXCEPT ![p] = 0]
  /\ result' = [result EXCEPT ![p] = NoResult]
  /\ snapshot' = [snapshot EXCEPT ![p] = <<>>]
  /\ io' = [io EXCEPT ![p] = NoIo]
  /\ summary' = NoSummary
  /\ UNCHANGED <<file, fileAtCall, firstFetched, lastSave, insertLog, prev, searchVars>>

\* save_cache, line 43: open() fails (permission denied); nothing catches it.
SaveOpenFails(p) ==
  /\ pc[p] = "save_open"
  /\ result' = [result EXCEPT ![p] = Raised("PermissionError")]
  /\ io' = [io EXCEPT ![p].saveFailed = TRUE]
  /\ pc' = [pc EXCEPT ![p] = "done"]
  /\ UNCHANGED <<file, bearer_token, response, cache, existing_tweets, new_tweets, all_tweets,
                 woff, snapshot, fileAtCall, firstFetched, lastSave, insertLog, prev,
                 searchVars, summary>>

\* save_cache, line 44: a write fails (disk full); the file keeps what was
\* written so far and nothing catches the fault.
SaveWriteFails(p) ==
  /\ pc[p] = "save_write"
  /\ result' = [result EXCEPT ![p] = Raised("OSError")]
  /\ io' = [io EXCEPT ![p].saveFailed = TRUE]
  /\ pc' = [pc EXCEPT ![p] = "done"]
  /\ UNCHANGED <<file, bearer_token, response, cache, existing_tweets, new_tweets, all_tweets,
                 woff, snapshot, fileAtCall, firstFetched, lastSave, insertLog, prev,
                 searchVars, summary>>

\* Line 224: requests.get raises instead of returning (connection lost, timeout,
\* the wait interrupted); nothing in the tool catches it.
RequestFaults == {"ConnectionError", "Timeout"}
RequestFails(p, exc) ==
  /\ pc[p] = "requesting"
  /\ result' = [result EXCEPT ![p] = Raised(exc)]
  /\ pc' = [pc EXCEPT ![p] = "done"]
  /\ UNCHANGED <<file, bearer_token, response, cache, existing_tweets, new_tweets, all_tweets,
                 woff, snapshot, io, fileAtCall, firstFetched, lastSave, insertLog, prev,
                 searchVars, summary>>

\* History: remember the invocation that just ran the dedup step, so that the
\* next one can be compared with it.
Remember(p) ==
  /\ pc[p] = "done"
  /\ io[p].read
  /\ result[p].text # "JSONDecodeError"
  /\ prev.age # 1
  /\ prev' = [age |-> 1, data |-> DataOf(response[p].body), all_tweets |-> all_tweets[p],
              twitter |-> PersistedTwitter]
  /\ UNCHANGED <<twitterVars, searchVars, summary>>

(* ------------------------------- search -------------------------------- *)
Hits == [url : {Absent, "https://mausam.imd.gov.in"}, content : {Absent, "forecast"}]
SearchResponses ==
  [status_code : {StatusOk, 500}, hasResults : BOOLEAN, results : SeqsUpTo(Hits, MaxHits)]

\* Lines 121-122: the request is posted.
SearchCall ==
  /\ spc \in {"idle", "done"}
  /\ spc' = "requesting"
  /\ sresult' = NoResult
  /\ UNCHANGED <<twitterVars, prev, summary>>

\* Lines 125-149: the results of a successful response, a raised Exception otherwise.
SearchRespond(r) ==
  /\ spc = "requesting"
  /\ spc' = "done"
  /\ sresult' =
       IF r.status_code = StatusOk
       THEN IF r.hasResults
            THEN [Returned("results") EXCEPT !.items =
                    [i \in DOMAIN r.results |->
                       [url |-> IF r.results[i].url = Absent THEN "No URL found"
                                ELSE r.results[i].url,
                        content |-> IF r.results[i].content = Absent THEN "No content found"
                                    ELSE r.results[i].content]]]
            ELSE Raised("No 'results' key found in the response.")
       ELSE [Raised("Failed to fetch results") EXCEPT !.status_code = r.status_code]
  /\ UNCHANGED <<twitterVars, prev, summary>>

(* ----------------------------- summarizer ------------------------------ *)
\* The text twitter_search_tool hands back: the f-strings of lines 226 and
\* 265-267, joined with blank lines (line 269).
PlaceInfoText(info) ==
  IF info[1] = "Location" THEN "Location: " \o info[2] \o ", " \o info[3]
  ELSE IF info[1] = "User's Location" THEN "User's Location: " \o info[2]
  ELSE info[1]
ItemText(item) ==
  "Author ID: " \o item.author_id \o "\nTweet: " \o item.text \o "\n"
    \o PlaceInfoText(item.place_info) \o "\nDate: " \o item.created_at
RECURSIVE JoinItems(_)
JoinItems(items) ==
  IF items = <<>> THEN ""
  ELSE IF Len(items) = 1 THEN ItemText(items[1])
  ELSE ItemText(Head(items)) \o "\n\n" \o JoinItems(Tail(items))
TextOf(res) ==
  IF res.text = "formatted" THEN JoinItems(res.items)
  ELSE IF res.text = "Error"
       THEN "Error: " \o ToString(res.status_code) \o ", {'title': '" \o res.body.title \o "'}"
       ELSE res.text

\* load_chat_model("gpt-4-turbo"): the name summarize_tweets passes, as characters.
ChatModelName == <<"g", "p", "t", "-", "4", "-", "t", "u", "r", "b", "o">>
\* fully_specified_name.split("/", maxsplit=1)
SplitOnce(s, sep) ==
  IF \E i \in DOMAIN s : s[i] = sep
  THEN LET i == CHOOSE i \in DOMAIN s : s[i] = sep /\ \A j \in 1..(i - 1) : s[j] # sep
       IN <<SubSeq(s, 1, i - 1), SubSeq(s, i + 1, Len(s))>>
  ELSE <<s>>
\* `provider, model = ...` unpacks exactly two parts, a ValueError otherwise.
LoadChatModelRaises(name) == Len(SplitOnce(name, "/")) # 2

\* What the hosted model can answer.
ModelAnswers == {"summary"}

\* summarize_tweets, lines 21-62, on the tweets fetch_tweets stored in the state.
Summarize(p, answer) ==
  /\ pc[p] = "done"
  /\ result[p].kind = "return"
  /\ summary.kind = "none"
  /\ LET tweets == TextOf(result[p])
     IN summary' =
          IF LoadChatModelRaises(ChatModelName)
          THEN [kind |-> "raise", text |-> "ValueError", invoked |-> 0, total |-> 0]
          ELSE IF tweets = "" \/ tweets = "No tweets found."
          THEN [kind |-> "return", text |-> "No relevant tweets found to summarize.",
                invoked |-> 0, total |-> 0]
          ELSE [kind |-> "return", text |-> answer, invoked |-> 1, total |-> Len(tweets)]
  /\ UNCHANGED <<twitterVars, prev, searchVars>>

(* --------------------------- specifications ---------------------------- *)
\* One process, one invocation of twitter_search_tool after the other.
Next ==
  \/ \E tok \in TokenValues : Call(MainProc, tok)
  \/ \E r \in Responses : Respond(MainProc, r)
  \/ LoadCache(MainProc)
  \/ SaveOpen(MainProc)
  \/ SaveWrite(MainProc)
  \/ Format(MainProc)
Spec == Init /\ [][Next]_vars

\* The same, with the search tool called by the same agent.
NextTools ==
  \/ Next
  \/ SearchCall
  \/ \E r \in SearchResponses : SearchRespond(r)
SpecTools == Init /\ [][NextTools]_vars

\* The same, where the process can be killed at any point of an invocation.
NextCrash ==
  \/ Next
  \/ Crash(MainProc)
SpecCrash == Init /\ [][NextCrash]_vars

\* The same, remembering an invocation to compare the next one with.
NextRepeat ==
  \/ Next
  \/ Remember(MainProc)
SpecRepeat == Init /\ [][NextRepeat]_vars

\* The same, where opening or writing the cache file can fail.
NextSaveFail ==
  \/ Next
  \/ SaveOpenFails(MainProc)
  \/ SaveWriteFails(MainProc)
SpecSaveFail == Init /\ [][NextSaveFail]_vars

\* One process that can be killed while save_cache runs, fed with successful
\* responses only.
KillResponses == {r \in OkResponses : r.body.users = <<>>}
NextKill ==
  \/ Call(MainProc, "secret")
  \/ \E r \in KillResponses : Respond(MainProc, r)
  \/ LoadCache(MainProc)
  \/ SaveOpen(MainProc)
  \/ SaveWrite(MainProc)
  \/ Format(MainProc)
  \/ (pc[MainProc] = "save_write" /\ Crash(MainProc))
SpecKill == Init /\ [][NextKill]_vars

\* One process whose upstream call can fail, and which can be killed while the
\* call is outstanding or while save_cache runs.
NextCancel ==
  \/ Call(MainProc, "secret")
  \/ \E r \in KillResponses \cup ErrResponses : Respond(MainProc, r)
  \/ \E exc \in RequestFaults : RequestFails(MainProc, exc)
  \/ LoadCache(MainProc)
  \/ SaveOpen(MainProc)
  \/ SaveWrite(MainProc)
  \/ Format(MainProc)
  \/ (pc[MainProc] \in {"requesting", "save_write"} /\ Crash(MainProc))
SpecCancel == Init /\ [][NextCancel]_vars

\* Documents a cache file can hold besides the default one: without the
\* "twitter" namespace, and with a filled "summarization" namespace and a key of
\* another writer.
OtherEntries == << <<"summarization", << <<"q1", "digest">> >> >>,
                   <<"version", << <<"schema", "1">> >> >> >>
DocWithoutTwitter == OtherEntries
DocWithOthers == << <<"twitter", <<>> >> >> \o OtherEntries
InitForeign == InitFrom({NoFile, FileOf(DocWithoutTwitter), FileOf(DocWithOthers)})
\* One process with credentials, fed with successful responses, over such a file.
NextForeign ==
  \/ Call(MainProc, "secret")
  \/ \E r \in KillResponses : Respond(MainProc, r)
  \/ LoadCache(MainProc)
  \/ SaveOpen(MainProc)
  \/ SaveWrite(MainProc)
  \/ Format(MainProc)
SpecForeign == InitForeign /\ [][NextForeign]_vars

\* The summarization graph: fetch_tweets, then summarize_tweets.
NextSummary ==
  \/ Next
  \/ \E a \in ModelAnswers : Summarize(MainProc, a)
SpecSummary == Init /\ [][NextSummary]_vars

\* Two processes run invocations against the same cache file.
ConcBatches == {b \in Batches : Len(b) = 1 /\ b[1].geo = Absent}
ConcResponses == {[status_code |-> StatusOk, body |-> Body(TRUE, b, <<>>, "")] :
                    b \in ConcBatches}
NextConc ==
  \E p \in Procs :
    \/ Call(p, "secret")
    \/ \E r \in ConcResponses : Respond(p, r)
    \/ LoadCache(p)
    \/ SaveOpen(p)
    \/ SaveWrite(p)
    \/ Format(p)
SpecConc == Init /\ [][NextConc]_vars

(* ------------------------------- claims -------------------------------- *)
Main == MainProc
Formatted(p) == pc[p] = "done" /\ result[p].text \in {"formatted", "KeyError"}

\* C1: the combined sequence (cached records followed by new records) that an
\* invocation builds and formats contains each tweet id exactly once.
C1_NoDuplicateIds == \A p \in Procs : DistinctIds(all_tweets[p])

\* C2: feeding the batch of the previous invocation a second time leaves the
\* persisted "twitter" namespace unchanged and yields the same combined sequence
\* as the first feeding did.
C2_Idempotent ==
  (/\ pc[Main] = "done"
   /\ prev.age = 2
   /\ Formatted(Main)
   /\ response[Main].body.hasData
   /\ response[Main].body.data = prev.data)
  => (/\ PersistedTwitter = prev.twitter
      /\ all_tweets[Main] = prev.all_tweets)

\* C3: the combined sequence is the previously cached records, in the order in
\* which they were first inserted into the cache, followed by the new records in
\* upstream response order.
C3_OrderPreserved ==
  Formatted(Main) =>
    /\ all_tweets[Main] = snapshot[Main] \o new_tweets[Main]
    /\ snapshot[Main] \o new_tweets[Main] = insertLog
    /\ \A i, j \in DOMAIN new_tweets[Main] :
         i < j => \E k, l \in DOMAIN response[Main].body.data :
                    /\ k < l
                    /\ response[Main].body.data[k] = new_tweets[Main][i]
                    /\ response[Main].body.data[l] = new_tweets[Main][j]

\* C4: the record stored under an id in the "twitter" namespace is the first
\* fetched item with that id, whatever later batches carry under the same id.
C4_FirstSeenWins ==
  \A i \in DOMAIN PersistedTwitter :
    PersistedTwitter[i][2] = firstFetched[PersistedTwitter[i][1]]
\* A later invocation has fetched a stored id with different content and completed.
C4_Witness ==
  /\ Formatted(Main)
  /\ \E t \in Range(response[Main].body.data) :
       /\ HasKey(PersistedTwitter, t.id)
       /\ Get(PersistedTwitter, t.id, NoTweet) # t

\* C5: after a kill at any point of save_cache, load_cache returns the document
\* persisted before the save or the new one, never an unparseable file.
C5_CrashSafe ==
  pc[Main] = "idle" => /\ ~LoadRaises(file)
                       /\ file \in {lastSave.from, lastSave.to}

\* C6: once two concurrent invocations have both completed, the persisted
\* "twitter" namespace contains the new records of both.
C6_NoLostUpdate ==
  (\A p \in Procs : pc[p] = "done") =>
    \A p \in Procs : \A t \in Range(new_tweets[p]) : HasKey(PersistedTwitter, t.id)

\* C7: search and twitter_search_tool never raise; the only fault that may
\* escape is the unparseable cache file on load.
C7_NeverRaises ==
  /\ sresult.kind # "raise"
  /\ \A p \in Procs : result[p].kind = "raise" => result[p].text = "JSONDecodeError"

\* C8: with no bearer token configured the tool returns exactly "Twitter API
\* credentials are missing.", issues no upstream request and neither reads nor
\* writes the cache file.
C8_MissingCredentials ==
  \A p \in Procs :
    (pc[p] = "done" /\ bearer_token[p] \in {Unset, ""}) =>
      /\ result[p] = Returned("Twitter API credentials are missing.")
      /\ ~io[p].requested /\ ~io[p].read /\ ~io[p].wrote
      /\ file = fileAtCall[p]
\* The token is set but empty, the cache holds records, and the call has returned.
C8_Witness ==
  /\ pc[Main] = "done"
  /\ bearer_token[Main] = ""
  /\ result[Main].kind = "return"
  /\ PersistedTwitter # <<>>

\* C9: a successful response with an empty or absent data array returns exactly
\* "No tweets found." and leaves the cache file as it was.
C9_ZeroResults ==
  \A p \in Procs :
    (/\ pc[p] = "done"
     /\ response[p].status_code = 200
     /\ (~response[p].body.hasData \/ response[p].body.data = <<>>)) =>
      /\ result[p] = Returned("No tweets found.")
      /\ ~io[p].read /\ ~io[p].wrote
      /\ file = fileAtCall[p]
\* An empty data array has been answered while the cache holds records.
C9_Witness ==
  /\ pc[Main] = "done"
  /\ response[Main].status_code = 200
  /\ response[Main].body.hasData
  /\ response[Main].body.data = <<>>
  /\ result[Main].text = "No tweets found."
  /\ PersistedTwitter # <<>>

C11_LocationResolution ==
  Formatted(Main) =>
    /\ result[Main].kind = "return"
    /\ Len(result[Main].items) = Len(all_tweets[Main])
    /\ \A i \in DOMAIN result[Main].items :
         LET t == all_tweets[Main][i]
             info == result[Main].items[i].place_info
             body == response[Main].body
         IN IF t.geo # Absent
            THEN \E pl \in Range(body.places) :
                   pl.id = t.geo /\ info = <<"Location", pl.full_name, pl.country>>
            ELSE IF \E u \in Range(body.users) : u.id = t.author_id /\ u.location # Absent
            THEN \E u \in Range(body.users) :
                   u.id = t.author_id /\ info = <<"User's Location", u.location>>
            ELSE info = <<"Location: Unknown">>

\* C12: an invocation that found new records and whose save_cache failed still
\* returns the merged result (cached plus new records) to its caller.
C12_ReturnsDespiteSaveFailure ==
  \A p \in Procs :
    (pc[p] = "done" /\ io[p].saveFailed) =>
      /\ result[p].kind = "return"
      /\ result[p].text = "formatted"
      /\ Len(result[p].items) = Len(snapshot[p]) + Len(new_tweets[p])

\* The "twitter" namespace stored in a file (empty when there is none).
StoredTwitter(f) ==
  IF f.exists /\ Parseable(f.tokens) THEN Get(json_load(f.tokens), "twitter", <<>>) ELSE <<>>
\* The invocation of p has run the dedup step on a loaded document.
Deduped(p) == pc[p] \in {"format", "done"} /\ io[p].read /\ result[p].text # "JSONDecodeError"

\* C13: save_cache is called exactly when at least one fetched id is not yet in
\* the "twitter" namespace; otherwise the cache file is not rewritten.
C13_SaveIffNew ==
  \A p \in Procs :
    Deduped(p) =>
      /\ io[p].wrote <=> \E t \in Range(response[p].body.data) :
                           ~HasKey(StoredTwitter(fileAtCall[p]), t.id)
      /\ ~io[p].wrote => file = fileAtCall[p]
\* A batch of cached ids only has been merged and nothing was written.
C13_Witness ==
  /\ Formatted(Main)
  /\ response[Main].body.data # <<>>
  /\ \A t \in Range(response[Main].body.data) : HasKey(StoredTwitter(fileAtCall[Main]), t.id)
  /\ ~io[Main].wrote
  /\ file = fileAtCall[Main]

\* C14: when the cache file exists and does not parse, load_cache fails, the
\* invocation aborts without a merge result and the file is left exactly as it was.
C14_CorruptCacheFatal ==
  \A p \in Procs :
    (/\ pc[p] = "done"
     /\ io[p].read
     /\ fileAtCall[p].exists
     /\ ~Parseable(fileAtCall[p].tokens)) =>
      /\ result[p] = Raised("JSONDecodeError")
      /\ all_tweets[p] = <<>>
      /\ new_tweets[p] = <<>>
      /\ ~io[p].wrote
      /\ file = fileAtCall[p]
\* An invocation has fetched tweets and met a cache file cut short by a kill.
C14_Witness ==
  /\ pc[Main] = "done"
  /\ io[Main].read
  /\ response[Main].body.data # <<>>
  /\ file.exists
  /\ ~Parseable(file.tokens)
  /\ file.tokens # <<>>
  /\ result[Main].kind = "raise"

\* C15: on "No tweets found." (or an empty result) summarize_tweets completes
\* with "No relevant tweets found to summarize." and never invokes the model.
C15_NoTweetsSentinel ==
  (/\ summary.kind # "none"
   /\ result[Main].kind = "return"
   /\ result[Main].text \in {"", "No tweets found."}) =>
    /\ summary.kind = "return"
    /\ summary.text = "No relevant tweets found to summarize."
    /\ summary.invoked = 0

\* C16: while the upstream call is outstanding, and when it fails or the process
\* is killed there, the cache file does not change; every step that changes the
\* file belongs to a save made after a complete 200 response with data, and the
\* document that save writes holds every new record of that response.
C16_CancelLeavesCacheWhole ==
  [][/\ pc[Main] = "requesting" => file' = file
     /\ file' # file =>
          /\ pc[Main] \in {"save_open", "save_write"}
          /\ response[Main].status_code = 200
          /\ response[Main].body.data # <<>>
          /\ \A t \in Range(response[Main].body.data) :
               /\ HasKey(Get(cache[Main], "twitter", <<>>), t.id)
               /\ HasKey(StoredTwitter(lastSave'.to), t.id)
          /\ \A i \in 1..Len(file'.tokens) :
               file'.tokens[i] = json_dump(cache[Main])[i]]_vars
\* The upstream call failed over a cache that holds records, and the file is as
\* it was when the invocation began.
C16_Witness ==
  /\ pc[Main] = "done"
  /\ result[Main].kind = "raise"
  /\ result[Main].text \in {"ConnectionError", "Timeout"}
  /\ StoredTwitter(file) # <<>>
  /\ file = fileAtCall[Main]

\* C17: in a single process without crashes, every id persisted before an
\* invocation, and every id any earlier invocation persisted, is still in the
\* persisted "twitter" namespace once the invocation is over, whatever its outcome.
C17_NeverRemoved ==
  pc[Main] \in {"idle", "done"} =>
    /\ \A i \in Ids : HasKey(StoredTwitter(fileAtCall[Main]), i) => HasKey(PersistedTwitter, i)
    /\ \A t \in Range(insertLog) : HasKey(PersistedTwitter, t.id)
\* An invocation has saved new records over a cache that already held some.
C17_Witness ==
  /\ pc[Main] = "done"
  /\ io[Main].wrote
  /\ new_tweets[Main] # <<>>
  /\ StoredTwitter(fileAtCall[Main]) # <<>>
  /\ \A t \in Range(new_tweets[Main]) : ~HasKey(StoredTwitter(fileAtCall[Main]), t.id)
  /\ \A i \in Ids : HasKey(StoredTwitter(fileAtCall[Main]), i) => HasKey(PersistedTwitter, i)

\* The document a parseable file holds.
DocOf(f) == json_load(f.tokens)

\* C18: on an absent file load_cache yields exactly the two empty namespaces
\* "twitter" and "summarization" and creates no file; on a document without
\* "twitter" every fetched record is new, the save adds the namespace and the
\* invocation does not fail.
C18_AbsentAndMissingAreEmpty ==
  /\ (pc[Main] = "save_open" /\ ~fileAtCall[Main].exists) =>
       /\ ~file.exists
       /\ Len(cache[Main]) = 2
       /\ Keys(cache[Main]) = {"twitter", "summarization"}
       /\ Get(cache[Main], "summarization", Absent) = <<>>
       /\ Values(Get(cache[Main], "twitter", Absent)) = response[Main].body.data
  /\ (/\ pc[Main] \in {"save_open", "save_write", "format", "done"}
      /\ io[Main].read
      /\ fileAtCall[Main].exists
      /\ Parseable(fileAtCall[Main].tokens)
      /\ ~HasKey(DocOf(fileAtCall[Main]), "twitter")) =>
       /\ new_tweets[Main] = response[Main].body.data
       /\ result[Main].kind # "raise"
       /\ pc[Main] \in {"format", "done"} =>
            /\ io[Main].wrote
            /\ HasKey(Persisted, "twitter")
            /\ Values(PersistedTwitter) = response[Main].body.data
\* An invocation over a document without "twitter" has returned its tweets and
\* the saved document has the namespace.
C18_Witness ==
  /\ pc[Main] = "done"
  /\ result[Main].kind = "return"
  /\ result[Main].text = "formatted"
  /\ fileAtCall[Main] = FileOf(DocWithoutTwitter)
  /\ Len(new_tweets[Main]) = 2
  /\ HasKey(Persisted, "twitter")

\* C19: every save writes the whole loaded document back with all its other
\* namespaces and keys and all its stored "twitter" records as they were; the new
\* records under "twitter" are the only difference.
C19_MergeFrame ==
  (pc[Main] \in {"save_write", "format", "done"} /\ io[Main].wrote) =>
    LET L == load_cache(lastSave.from)
        S == DocOf(lastSave.to)
        Lt == Get(L, "twitter", <<>>)
        St == Get(S, "twitter", <<>>)
    IN /\ Keys(S) = Keys(L) \cup {"twitter"}
       /\ \A i \in DOMAIN L : S[i][1] = L[i][1]
       /\ \A k \in Keys(L) \ {"twitter"} : Get(S, k, Absent) = Get(L, k, Absent)
       /\ \A i \in DOMAIN Lt : St[i] = Lt[i]
       /\ Len(St) = Len(Lt) + Len(new_tweets[Main])
       /\ \A i \in DOMAIN new_tweets[Main] :
            St[Len(Lt) + i] = <<new_tweets[Main][i].id, new_tweets[Main][i]>>
       /\ pc[Main] \in {"format", "done"} => file = lastSave.to
\* A save has added a record to a document that held a record, a filled
\* "summarization" namespace and another writer's key.
C19_Witness ==
  /\ pc[Main] = "done"
  /\ io[Main].wrote
  /\ StoredTwitter(lastSave.from) # <<>>
  /\ HasKey(Persisted, "version")
  /\ Get(Persisted, "summarization", <<>>) # <<>>
  /\ Len(PersistedTwitter) = Len(StoredTwitter(lastSave.from)) + Len(new_tweets[Main])
  /\ file = lastSave.to

\* C20: when the fetch step produced a merged set of n >= 1 tweets,
\* summarize_tweets invokes the model exactly once, the prompt's "Total Tweets
\* Analyzed" is n, and the final message is the model's response.
C20_SummarizesTweets ==
  (/\ summary.kind # "none"
   /\ result[Main].kind = "return"
   /\ result[Main].text = "formatted"
   /\ all_tweets[Main] # <<>>) =>
    /\ summary.kind = "return"
    /\ summary.invoked = 1
    /\ summary.total = Cardinality({all_tweets[Main][i].id : i \in DOMAIN all_tweets[Main]})
    /\ summary.text \in ModelAnswers

\* C21: starting from an empty or absent cache file, in every persisted document
\* each key of the "twitter" namespace is the id of the record stored under it, so
\* the ids read from the stored records are exactly the keys of the namespace.
C21_KeyIsId ==
  /\ \A i \in DOMAIN PersistedTwitter : PersistedTwitter[i][1] = PersistedTwitter[i][2].id
  /\ {PersistedTwitter[i][2].id : i \in DOMAIN PersistedTwitter} = Keys(PersistedTwitter)
  /\ \A i, j \in DOMAIN PersistedTwitter :
       PersistedTwitter[i][1] = PersistedTwitter[j][1] => i = j
\* Two invocations have each persisted a record, and the document holds both.
C21_Witness ==
  /\ pc[Main] = "done"
  /\ io[Main].wrote
  /\ StoredTwitter(fileAtCall[Main]) # <<>>
  /\ Len(PersistedTwitter) = Len(StoredTwitter(fileAtCall[Main])) + Len(new_tweets[Main])
  /\ Len(PersistedTwitter) >= 2

====
